---- MODULE Spec2Model ----
(***************************************************************************)
(* A model of the babyccino server: the /generate-code pipeline            *)
(* (api/generate.py, services/code_generator.py, services/test_runner.py,  *)
(* services/complexity_analyzer.py), the test proposer                     *)
(* (services/test_proposer.py), and, each under a specification of its     *)
(* own, the rendering of approved tests (SpecBuild), the two parsers of    *)
(* the test runner (SpecParse), concurrent run_tests calls (SpecRun), and  *)
(* single calls of the complexity analyzer, the flowchart generator        *)
(* (services/flowchart_generator.py) and GET /health (SpecService).        *)
(*                                                                         *)
(* Texts (completion responses, source code, process output) are finite    *)
(* sequences of string tokens.  A token stands for a run of characters     *)
(* the code never looks inside: "<fence>python" is the nine characters of a    *)
(* language-tagged fence, "\n" is white space, "def f" is some source.     *)
(***************************************************************************)
EXTENDS Integers, Sequences, FiniteSets, TLC

VARIABLES
    pc,                 \* position of the request being served
    entry,              \* "none", "http" (POST /generate-code) or "direct"
    request,            \* the GenerateCodeRequest body of an http entry
    requirements_list,  \* generate_functions: its first argument
    approved_tests,     \* generate_functions: its second argument
    idx,                \* generate_functions: 1-based position of the for loop
    tests_for_this,     \* generate_functions: local of the loop body
    function_code,      \* generate_function: local
    test_code,          \* generate_function: local
    test_run,           \* generate_function: (test_results, test_summary)
    results,            \* generate_functions: local list of CodeResult
    outcome,            \* how the generate_functions call ended
    response,           \* the HTTP response of an http entry
    trace,              \* the steps executed so far, in order
    p_pc,               \* propose_tests: "idle" or "done"
    p_completion,       \* propose_tests: what its completion call did
    p_out,              \* propose_tests: how the call ended
    b_pc,               \* _build_test_code_from_approved: "idle" or "done"
    b_tests,            \* _build_test_code_from_approved: its approved_tests
    b_code,            \* _build_test_code_from_approved: the text it returned
    o_pc,               \* _parse_pytest_output / _extract_summary: "idle" or "done"
    o_output,           \* the output text handed to both
    o_parsed,           \* what the two returned: (results, summary)
    calls,              \* run_tests: the calls of this process, by call id
    dirs,               \* the temporary directories that exist, with their files
    procs,              \* the test processes launched so far
    s_call,             \* the service call made: "none", "analyze", ...
    s_in,               \* what that call was given
    s_out               \* how that call ended

\* The variables of the /generate-code pipeline and of the test proposer.
gvars == << pc, entry, request, requirements_list, approved_tests, idx,
            tests_for_this, function_code, test_code, test_run, results,
            outcome, response, trace >>

pvars == << p_pc, p_completion, p_out >>

\* The variables of a direct call of _build_test_code_from_approved, of the
\* two output parsers of the test runner, and of concurrent run_tests calls.
bvars == << b_pc, b_tests, b_code >>

ovars == << o_pc, o_output, o_parsed >>

rvars == << calls, dirs, procs >>

\* The variables of one call of a service that stands alone: the complexity
\* analyzer, the flowchart generator, the health check.
svars == << s_call, s_in, s_out >>

vars == << gvars, pvars, bvars, ovars, rvars, svars >>

----------------------------------------------------------------------------
(* Bounds and input domains *)

MaxReqs == 2

Names == {"f", "g"}

\* FunctionRequirements: pydantic models compare equal field by field.
Requirements == [name : Names, purpose : {"p"}]

RECURSIVE SeqsUpTo(_, _)
SeqsUpTo(S, n) ==
    IF n = 0 THEN {<< >>}
    ELSE LET shorter == SeqsUpTo(S, n - 1)
         IN  shorter \cup {Append(s, x) : s \in {t \in shorter : Len(t) = n - 1}, x \in S}

RequirementLists == SeqsUpTo(Requirements, MaxReqs)

\* Optional[list[...]]: None, or a list (possibly empty).
None == [given |-> FALSE, cases |-> << >>]
Some(s) == [given |-> TRUE, cases |-> s]

\* Python truthiness of an Optional[list]: None and [] are both falsy.
Truthy(opt) == opt.given /\ Len(opt.cases) > 0

\* ApprovedTestCase (models/requests.py): descriptions are character sequences.
Case1 ==
    [id |-> "t1", description |-> <<"I", "s", " ", "o", "k">>,
     input |-> "2", expected_output |-> "True", is_edge_case |-> FALSE]

Case2 ==
    [id |-> "t2", description |-> <<"n", "-", "1", "!">>,
     input |-> "3", expected_output |-> "False", is_edge_case |-> TRUE]

ApprovedOptions == { None, Some(<< >>), Some(<<Case1, Case2>>) }

\* GenerateCodeRequest bodies as they arrive (before validation).
Requests == [requirements : RequirementLists, approved_tests : ApprovedOptions]

----------------------------------------------------------------------------
(* Text helpers: str.strip, str.startswith, str.endswith, slicing *)

Whitespace == {" ", "\n"}

RECURSIVE LStrip(_)
LStrip(t) ==
    IF t = << >> THEN << >>
    ELSE IF Head(t) \in Whitespace THEN LStrip(Tail(t)) ELSE t

RECURSIVE RStrip(_)
RStrip(t) ==
    IF t = << >> THEN << >>
    ELSE IF t[Len(t)] \in Whitespace THEN RStrip(SubSeq(t, 1, Len(t) - 1)) ELSE t

\* The one token that has white space at its own ends, with it taken off.
TrimLeft(tok) ==
    CASE tok = " in " -> "in " [] tok = " in" -> "in" [] OTHER -> tok

TrimRight(tok) ==
    CASE tok = " in " -> " in" [] tok = "in " -> "in" [] OTHER -> tok

Strip(t) ==
    LET s == RStrip(LStrip(t))
    IN  IF s = << >> THEN s
        ELSE LET l == [s EXCEPT ![1] = TrimLeft(s[1])]
             IN  [l EXCEPT ![Len(l)] = TrimRight(l[Len(l)])]

\* The tokens whose characters begin with three backticks.
FenceTokens == {"<fence>", "<fence>python", "<fence>json"}

StartsWithTagged(t, tag) == t # << >> /\ Head(t) = tag

StartsWithFence(t) == t # << >> /\ Head(t) \in FenceTokens

EndsWithFence(t) == t # << >> /\ t[Len(t)] = "<fence>"

\* t[3:] of a text that starts with three backticks: a language tag that
\* followed the backticks stays in the text.
DropBackticks(t) ==
    CASE Head(t) = "<fence>"       -> Tail(t)
      [] Head(t) = "<fence>python" -> <<"python">> \o Tail(t)
      [] Head(t) = "<fence>json"   -> <<"json">> \o Tail(t)

DropLast(t) == SubSeq(t, 1, Len(t) - 1)

\* code_generator.py: the clean-up after each completion call.
CleanCode(text) ==
    LET code0 == Strip(text)
        code1 == IF StartsWithTagged(code0, "<fence>python") THEN Tail(code0)
                 ELSE IF StartsWithFence(code0) THEN DropBackticks(code0)
                 ELSE code0
        code2 == IF EndsWithFence(code1) THEN DropLast(code1) ELSE code1
    IN  Strip(code2)

----------------------------------------------------------------------------
(* _build_test_code_from_approved *)

UpperLetters == <<"A", "B", "C", "D", "E", "F", "G", "H", "I", "J", "K", "L", "M",
                  "N", "O", "P", "Q", "R", "S", "T", "U", "V", "W", "X", "Y", "Z">>

LowerLetters == <<"a", "b", "c", "d", "e", "f", "g", "h", "i", "j", "k", "l", "m",
                  "n", "o", "p", "q", "r", "s", "t", "u", "v", "w", "x", "y", "z">>

Digits == {"0", "1", "2", "3", "4", "5", "6", "7", "8", "9"}

Range(f) == {f[x] : x \in DOMAIN f}

\* str.lower on one character.
Lower(c) ==
    IF c \in Range(UpperLetters)
    THEN LowerLetters[CHOOSE k \in DOMAIN UpperLetters : UpperLetters[k] = c]
    ELSE c

\* Characters outside ASCII for which str.isalnum is true: "<superscript 2>"
\* is U+00B2, a digit of category No.
OtherAlnum == {"<superscript 2>"}

\* str.isalnum on one character.
IsAlnum(c) ==
    c \in Range(UpperLetters) \cup Range(LowerLetters) \cup Digits \cup OtherAlnum

\* The chain of str.replace calls on one (lower-cased) character.
ReplaceChar(c) ==
    CASE c = " "  -> <<"_">>
      [] c = "<apostrophe>" -> << >>
      [] c = "\"" -> << >>
      [] c = "-"  -> <<"_">>
      [] c = "/"  -> <<"_">>
      [] OTHER    -> <<c>>

RECURSIVE Replaced(_)
Replaced(d) ==
    IF d = << >> THEN << >> ELSE ReplaceChar(Lower(Head(d))) \o Replaced(Tail(d))

MaxIdentLen == 60

SafeDesc(description) ==
    LET kept == SelectSeq(Replaced(description), LAMBDA c : IsAlnum(c) \/ c = "_")
    IN  SubSeq(kept, 1, IF Len(kept) < MaxIdentLen THEN Len(kept) ELSE MaxIdentLen)

\* The four lines appended for one approved case.
TestLines(fn, test) ==
    << <<"def test_">> \o SafeDesc(test.description) \o <<"():">>,
       <<"    \"\"\"">> \o test.description \o <<"\"\"\"">>,
       <<"    assert ", fn, "(", test.input, ") == ", test.expected_output>>,
       << >> >>

RECURSIVE AllTestLines(_, _)
AllTestLines(fn, tests) ==
    IF tests = << >> THEN << >>
    ELSE TestLines(fn, Head(tests)) \o AllTestLines(fn, Tail(tests))

\* "\n".join(lines)
RECURSIVE JoinLines(_)
JoinLines(lines) ==
    IF lines = << >> THEN << >>
    ELSE IF Len(lines) = 1 THEN Head(lines)
    ELSE Head(lines) \o <<"\n">> \o JoinLines(Tail(lines))

BuildTestCodeFromApproved(requirements, tests) ==
    JoinLines(<< <<"from function import ", requirements.name>>, << >> >>
              \o AllTestLines(requirements.name, tests))

\* The descriptions of approved cases: up to MaxDescLen characters, alone or
\* after a run of MaxIdentLen letters.
DescChars == {"A", " ", "-", "!", "<superscript 2>"}

MaxDescLen == 1

Pad(n) == [k \in 1..n |-> "a"]

Descriptions ==
    {Pad(n) \o d : n \in {0, MaxIdentLen},
                   d \in UNION {[1..m -> DescChars] : m \in 0..MaxDescLen}}

ApprovedCase(description) ==
    [id |-> "t", description |-> description,
     input |-> "2", expected_output |-> "True", is_edge_case |-> FALSE]

MaxCases == 2

\* The non-empty lists generate_function hands over (if approved_tests:).
ApprovedLists ==
    UNION {[1..n -> {ApprovedCase(d) : d \in Descriptions}] : n \in 1..MaxCases}

\* A call of _build_test_code_from_approved.
build_test_code ==
    /\ b_pc = "idle"
    /\ \E tests \in ApprovedLists :
        /\ b_tests' = tests
        /\ b_code' = BuildTestCodeFromApproved([name |-> "f", purpose |-> "p"], tests)
    /\ b_pc' = "done"
    /\ UNCHANGED << gvars, pvars, ovars, rvars, svars >>

----------------------------------------------------------------------------
(* test_runner.py: parsing the output of the test process *)

\* Tokens matching test_\w+\.py::
PrefixTokens == {"test_function.py::"}

\* Tokens matching \w+ that can stand where a test name stands.
WordTokens == {"test_a", "test_b", "test_ab"}

\* Whether the characters of `name` occur in token `tok`.
Occurs(name, tok) == tok = name \/ (name = "test_a" /\ tok = "test_ab")

StatusTokens == {"PASSED", "FAILED"}

\* Tokens matching [\d\.]+s
SecondsTokens == {"0.05s"}

\* Tokens whose characters are all in [\d\s\w,]
TallyTokens ==
    Whitespace \cup WordTokens \cup StatusTokens
    \cup {"1 passed", "1 failed, 1 passed", " in ", "collected 2 items",
          "1 error", "E assert", "ERROR collecting"}

\* The characters of a token after its last character outside [\d\s\w,]:
\* "05s" for "0.05s", nothing for the other tokens that are not a tally.
TallyTail(tok) == IF tok \in SecondsTokens THEN <<"05s">> ELSE << >>

TestCaseResult(name, passed, output) ==
    [name |-> name, passed |-> passed, output |-> output]

Min(S) == CHOOSE x \in S : \A y \in S : x <= y
Max(S) == CHOOSE x \in S : \A y \in S : x >= y

\* The first position from j on that holds no white space (\s+ is greedy).
WsEnd(output, j) ==
    Min({n \in j..(Len(output) + 1) : n > Len(output) \/ output[n] \notin Whitespace})

\* Whether test_\w+\.py::(\w+)\s+(PASSED|FAILED) matches at token k: the
\* name is any run of word characters, a status word included.
MatchAt(output, k) ==
    /\ k + 3 <= Len(output)
    /\ output[k] \in PrefixTokens
    /\ output[k + 1] \in WordTokens \cup StatusTokens
    /\ output[k + 2] \in Whitespace
    /\ WsEnd(output, k + 2) <= Len(output)
    /\ output[WsEnd(output, k + 2)] \in StatusTokens

\* re.search(rf"{test_name}.*?(?=test_\w+\.py::|\Z)", output, re.DOTALL)
FailureOutput(output, test_name) ==
    LET starts == {k \in 1..Len(output) : Occurs(test_name, output[k])}
    IN  IF starts = {} THEN << >>
        ELSE LET k    == Min(starts)
                 ends == {j \in (k + 1)..Len(output) : output[j] \in PrefixTokens}
                 j    == IF ends = {} THEN Len(output) + 1 ELSE Min(ends)
             IN  Strip(SubSeq(output, k, j - 1))

\* A parser that stops at the first result line (re.search, not re.findall).
ResultsFromFirstOnly(output, k) ==
    LET found == {j \in k..Len(output) : MatchAt(output, j)}
    IN  IF found = {} THEN << >>
        ELSE LET j         == Min(found)
                 test_name == output[j + 1]
                 passed    == output[WsEnd(output, j + 2)] = "PASSED"
                 failure   == IF passed THEN << >> ELSE FailureOutput(output, test_name)
             IN  <<TestCaseResult(test_name, passed, failure)>>

RECURSIVE ResultsFrom(_, _)
ResultsFrom(output, k) ==
    IF k > Len(output) THEN << >>
    ELSE IF MatchAt(output, k)
    THEN LET test_name == output[k + 1]
             last      == WsEnd(output, k + 2)
             passed    == output[last] = "PASSED"
             failure   == IF passed THEN << >> ELSE FailureOutput(output, test_name)
         IN  <<TestCaseResult(test_name, passed, failure)>> \o ResultsFrom(output, last + 1)
    ELSE ResultsFrom(output, k + 1)

\* A parser that returns what it found, also when that is nothing.
ParsePytestOutputNoPlaceholder(output) == ResultsFrom(output, 1)

ParsePytestOutput(output) ==
    LET found == ResultsFrom(output, 1)
    IN  IF found = << >>
        THEN <<TestCaseResult("unknown", FALSE, <<"No tests found in output">>)>>
        ELSE found

\* re.search(r"([\d\s\w,]+)\s+in\s+[\d\.]+s", output): the leftmost start, and
\* from it the longest group.
\* What of token k can open the group: the token, or its tail.
Piece(output, k) ==
    IF output[k] \in TallyTokens THEN <<output[k]>> ELSE TallyTail(output[k])

SummaryEnds(output, k) ==
    {m \in (k + 1)..(Len(output) - 1) :
        /\ Piece(output, k) # << >>
        /\ \A n \in (k + 1)..(m - 1) : output[n] \in TallyTokens
        /\ output[m] = " in "
        /\ WsEnd(output, m + 1) <= Len(output)
        /\ output[WsEnd(output, m + 1)] \in SecondsTokens}

\* A summary extraction that gives the fixed string whatever the output is.
ExtractSummaryAlwaysUnknown(output) == <<"Unknown test results">>

ExtractSummary(output) ==
    LET starts == {k \in 1..Len(output) : SummaryEnds(output, k) # {}}
    IN  IF starts = {} THEN <<"Unknown test results">>
        ELSE LET k == Min(starts)
             IN  Strip(Piece(output, k)
                       \o SubSeq(output, k + 1, Max(SummaryEnds(output, k)) - 1))

\* What the environment does to one run_tests call.
RunEnvs == {"mkdtemp_error", "write_error", "spawn_error", "communicate_error", "ran"}

\* The failures that happen outside the try block of run_tests.
RunRaises(env) == env \in {"mkdtemp_error", "write_error"}

\* The value run_tests returns when it returns: (results, summary).
RunTestsReturn(env, output) ==
    IF env = "ran"
    THEN [results |-> ParsePytestOutput(output), summary |-> ExtractSummary(output)]
    ELSE [results |-> <<TestCaseResult("test_execution_error", FALSE,
                                       <<"Failed to execute tests: ", env>>)>>,
          summary |-> <<"0 passed, 1 failed">>]

PytestOutputs ==
    { <<"collected 2 items", "\n",
        "test_function.py::", "test_a", " ", "PASSED", "\n",
        "test_function.py::", "test_b", " ", "FAILED", "\n",
        "E assert", "\n",
        "=", " ", "1 failed, 1 passed", " in ", "0.05s", " ", "=">>,
      <<"ERROR collecting", "\n">> }

----------------------------------------------------------------------------
(* test_runner.py: run_tests calls in flight at the same time *)

MaxCalls == 2

Calls == 1..MaxCalls

\* The names tempfile can give a directory; 0 stands for no directory.
DirNames == 1..MaxCalls

NoDir == [exists |-> FALSE, owner |-> 0, files |-> {}]

NoReturn == [kind |-> "none", results |-> << >>, summary |-> << >>]

NewCall == [pc |-> "idle", tmpdir |-> 0, launched |-> 0, path |-> "none", ret |-> NoReturn]

\* A mkdtemp that takes a name whether or not it is in use.
AnyDirs(ds) == DirNames

\* tempfile.mkdtemp: the directory is made with an exclusive mkdir and
\* another name is tried while the name is in use.
FreshDirs(ds) == {d \in DirNames : ~ds[d].exists}

MakeDir(ds, d, c) == [ds EXCEPT ![d] = [exists |-> TRUE, owner |-> c, files |-> {}]]

\* Path.write_text: creates the file or replaces its content.
WriteText(ds, d, name, c) ==
    [ds EXCEPT ![d].files = {f \in @ : f.name # name} \cup {[name |-> name, writer |-> c]}]

\* A context manager that removes the directory only on a normal return.
ExitWithOnReturnOnly(ds, d, kind) ==
    IF kind = "returned" THEN [ds EXCEPT ![d] = NoDir] ELSE ds

\* TemporaryDirectory.__exit__: the directory and its content are removed,
\* whether the block ends by a return or by an exception.
ExitWith(ds, d, kind) == [ds EXCEPT ![d] = NoDir]

\* Call c ends inside the with block.
Leave(c, path, kind, value) ==
    /\ calls' = [calls EXCEPT ![c].pc = "done", ![c].path = path,
                              ![c].ret = [kind |-> kind, results |-> value.results,
                                          summary |-> value.summary]]
    /\ dirs' = ExitWith(dirs, calls[c].tmpdir, kind)

\* with tempfile.TemporaryDirectory() as tmpdir
EnterWith(c) ==
    /\ calls[c].pc = "idle"
    /\ \/ /\ calls' = [calls EXCEPT ![c].pc = "done", ![c].path = "mkdtemp_error",
                                     ![c].ret = [NoReturn EXCEPT !.kind = "raised"]]
          /\ UNCHANGED dirs
       \/ \E d \in FreshDirs(dirs) :
             /\ dirs' = MakeDir(dirs, d, c)
             /\ calls' = [calls EXCEPT ![c].pc = "write_function", ![c].tmpdir = d]
    /\ UNCHANGED << procs, gvars, pvars, bvars, ovars, svars >>

\* function_file.write_text(function_code) and test_file.write_text(test_code):
\* both come before the try block.
WriteFile(c, at, name, then) ==
    /\ calls[c].pc = at
    /\ \/ /\ dirs' = WriteText(dirs, calls[c].tmpdir, name, c)
          /\ calls' = [calls EXCEPT ![c].pc = then]
       \/ Leave(c, "write_error", "raised", NoReturn)
    /\ UNCHANGED << procs, gvars, pvars, bvars, ovars, svars >>

WriteFunctionFile(c) == WriteFile(c, "write_function", "function.py", "write_test")

WriteTestFile(c) == WriteFile(c, "write_test", "test_function.py", "launch")

\* await asyncio.create_subprocess_exec("pytest", ..., cwd=tmpdir)
CreateSubprocess(c) ==
    /\ calls[c].pc = "launch"
    /\ \/ /\ procs' = procs \cup {[call |-> c, cwd |-> calls[c].tmpdir]}
          /\ calls' = [calls EXCEPT ![c].pc = "communicate", ![c].launched = @ + 1]
          /\ UNCHANGED dirs
       \/ /\ Leave(c, "spawn_error", "returned", RunTestsReturn("spawn_error", << >>))
          /\ UNCHANGED procs
    /\ UNCHANGED << gvars, pvars, bvars, ovars, svars >>

\* await process.communicate(), the decoding, the parsing and the return.
Communicate(c) ==
    /\ calls[c].pc = "communicate"
    /\ \/ \E output \in PytestOutputs :
             Leave(c, "ran", "returned", RunTestsReturn("ran", output))
       \/ Leave(c, "communicate_error", "returned",
                RunTestsReturn("communicate_error", << >>))
    /\ UNCHANGED << procs, gvars, pvars, bvars, ovars, svars >>

----------------------------------------------------------------------------
\* The output texts handed to the two parsers: every text of up to MaxOutLen
\* tokens in which each token is a maximal run, so that no token ending in
\* a word character is followed by one starting with a word character.
OutputTokens ==
    {"test_function.py::", "test_a", " ", "PASSED", "FAILED", "1 error", " in ",
     "0.05s", "="}

StartsWithWord == {"test_function.py::", "test_a", "PASSED", "FAILED", "1 error", "0.05s"}

EndsWithWord == {"test_a", "PASSED", "FAILED", "1 error", "0.05s"}

MaxOutLen == 5

\* Whole outputs of a pytest run: the two above, one where the name of the
\* failed test is the beginning of the name of an earlier test, and one
\* where the test printed a line of the shape <words> in <seconds>s.
SampleOutputs ==
    PytestOutputs \cup
    { <<"collected 2 items", "\n",
        "test_function.py::", "test_ab", " ", "PASSED", "\n",
        "test_function.py::", "test_a", " ", "FAILED", "\n",
        "E assert", "\n",
        "=", " ", "1 failed, 1 passed", " in ", "0.05s", " ", "=">>,
      <<"collected 2 items", "\n",
        "test_function.py::", "test_a", " ", "PASSED", "\n",
        "test_a", " in ", "0.05s", "\n",
        "=", " ", "1 passed", " in ", "0.05s", " ", "=">> }

OutputTexts ==
    {t \in UNION {[1..n -> OutputTokens] : n \in 0..MaxOutLen} :
        \A k \in 1..(Len(t) - 1) : ~(t[k] \in EndsWithWord /\ t[k + 1] \in StartsWithWord)}
    \cup SampleOutputs

\* run_tests, lines 56-57: the two parsers applied to one output text.
parse_output ==
    /\ o_pc = "idle"
    /\ \E output \in OutputTexts :
        /\ o_output' = output
        /\ o_parsed' = [results |-> ParsePytestOutput(output),
                        summary |-> ExtractSummary(output)]
    /\ o_pc' = "done"
    /\ UNCHANGED << gvars, pvars, bvars, rvars, svars >>

----------------------------------------------------------------------------
(* complexity_analyzer.py *)

ComplexityResult(time, space, explanation) ==
    [time |-> time, space |-> space, explanation |-> explanation]

\* json.loads of the cleaned text, then the three subscripts and the model
\* validation.  A JSON document is one token; any other text does not parse.
AnalysisOf(text) ==
    CASE text = <<"{time,space,explanation}">> ->
             ComplexityResult("O(n)", "O(1)", "one pass")
      [] text = <<"{time}">> ->          \* KeyError: 'space'
             ComplexityResult("O(?)", "O(?)", "Failed to analyze complexity: 'space'")
      [] text = <<"[1]">> ->             \* TypeError
             ComplexityResult("O(?)", "O(?)", "Failed to analyze complexity: list indices")
      [] text = <<"{time:1,space:1,explanation:1}">> ->   \* ValidationError
             ComplexityResult("O(?)", "O(?)", "Failed to analyze complexity: validation")
      [] text = <<"<4301 digits>">> ->   \* ValueError, not a JSONDecodeError
             ComplexityResult("O(?)", "O(?)", "Failed to analyze complexity: Exceeds the limit")
      [] OTHER ->                        \* json.JSONDecodeError
             ComplexityResult("O(?)", "O(?)",
                              "Failed to analyze complexity - invalid response format.")

CleanAnalysis(text) ==
    LET r0 == Strip(text)
        r1 == IF StartsWithTagged(r0, "<fence>json") THEN Tail(r0) ELSE r0
        r2 == IF StartsWithFence(r1) THEN DropBackticks(r1) ELSE r1
        r3 == IF EndsWithFence(r2) THEN DropLast(r2) ELSE r2
    IN  Strip(r3)

\* A completion call either raises RuntimeError or returns text.
Raised == [ok |-> FALSE, text |-> << >>]
Returned(text) == [ok |-> TRUE, text |-> text]

\* An analyzer whose handler for a failed call reports a made-up estimate.
AnalyzeNoSentinel(completion) ==
    IF completion.ok
    THEN AnalysisOf(CleanAnalysis(completion.text))
    ELSE ComplexityResult("O(1)", "O(1)", "unknown")

Analyze(completion) ==
    IF completion.ok
    THEN AnalysisOf(CleanAnalysis(completion.text))
    ELSE ComplexityResult("O(?)", "O(?)",
                          "Failed to analyze complexity: Failed to generate completion")

\* The exception raised inside the try block of analyze, "none" when the
\* ComplexityResult is built from the parsed text.
AnalysisError(completion) ==
    IF ~completion.ok THEN "RuntimeError"
    ELSE LET text == CleanAnalysis(completion.text)
         IN  CASE text = <<"{time,space,explanation}">>       -> "none"
               [] text = <<"{time}">>                         -> "KeyError"
               [] text = <<"[1]">>                            -> "TypeError"
               [] text = <<"{time:1,space:1,explanation:1}">> -> "ValidationError"
               [] text = <<"<4301 digits>">>                  -> "ValueError"
               [] OTHER                                       -> "JSONDecodeError"

\* The classes above, all of them subclasses of Exception.
ExceptionClasses ==
    {"RuntimeError", "KeyError", "TypeError", "ValidationError", "ValueError",
     "JSONDecodeError", "AttributeError", "ConnectionError"}

\* An analyzer with the first of its two except clauses only.
CaughtOnlyJsonError == {"JSONDecodeError"}

\* except json.JSONDecodeError, then except Exception.
CaughtByAnalyze == {"JSONDecodeError"} \cup ExceptionClasses

\* How a call of a stand-alone service ends.
Gives(value) == [kind |-> "returned", value |-> value, error |-> ""]

Fails(error) == [kind |-> "raised", value |-> << >>, error |-> error]

AnalyzerTokens ==
    {"<fence>json", "<fence>", "\n", "{time,space,explanation}", "{time}", "[1]",
     "{time:1,space:1,explanation:1}", "<4301 digits>", "not json"}

MaxAnalysisLen == 3

AnalyzerTexts == UNION {[1..n -> AnalyzerTokens] : n \in 0..MaxAnalysisLen}

\* ComplexityAnalyzer.analyze called on its own.
analyze ==
    /\ s_call = "none"
    /\ \E c \in {Raised} \cup {Returned(t) : t \in AnalyzerTexts} :
        /\ s_in' = c
        /\ s_out' = IF AnalysisError(c) = "none" \/ AnalysisError(c) \in CaughtByAnalyze
                    THEN Gives(Analyze(c))
                    ELSE Fails(AnalysisError(c))
    /\ s_call' = "analyze"
    /\ UNCHANGED << gvars, pvars, bvars, ovars, rvars >>

----------------------------------------------------------------------------
(* test_proposer.py: _parse_proposed_tests and _fallback_tests *)

\* The tokens of a proposer response.  "prose" is a run of characters with no
\* bracket, back-tick or line break; "\n" is one line break; the JSON atoms
\* are whole values: the string "x", the object {"input": "x"}, and an
\* integer literal of 4301 digits.
ProposerTokens ==
    {"prose", "\n", "<fence>", "[", "]", ",", "\"x\"", "{input:x}", "<4301 digits>"}

MaxTextLen == 5

FreeTexts == UNION {[1..n -> ProposerTokens] : n \in 0..MaxTextLen}

\* The values of a JSON array that is the whole response: the string "x",
\* the object {"input": "x"}, an object with all four fields
\* {"description": "d", "input": "y", "expected_output": 1, "is_edge_case":
\* true}, the object {"description": null}, and a run of eight objects
\* {"input": "x"} with commas between them.
ArrayValues == {"\"x\"", "{input:x}", "{d,y,1,true}", "{description:null}", "<8 objects>"}

MaxItems == 3

RECURSIVE CommaJoin(_)
CommaJoin(items) ==
    IF items = << >> THEN << >>
    ELSE IF Len(items) = 1 THEN items
    ELSE <<Head(items), ",">> \o CommaJoin(Tail(items))

ArrayText(items) == <<"[">> \o CommaJoin(items) \o <<"]">>

ArrayTexts == {ArrayText(items) : items \in UNION {[1..n -> ArrayValues] : n \in 0..MaxItems}}

ProposerTexts == FreeTexts \cup ArrayTexts

\* str.split("\n")
RECURSIVE SplitLines(_)
SplitLines(t) ==
    IF \A k \in DOMAIN t : t[k] # "\n" THEN <<t>>
    ELSE LET k == Min({n \in DOMAIN t : t[n] = "\n"})
         IN  <<SubSeq(t, 1, k - 1)>> \o SplitLines(SubSeq(t, k + 1, Len(t)))

\* The fence stripping at the head of _parse_proposed_tests.
StripFences(raw_response) ==
    LET cleaned == Strip(raw_response)
    IN  IF StartsWithFence(cleaned)
        THEN LET lines == SplitLines(cleaned)
                 n     == Len(lines)
             IN  JoinLines(IF Strip(lines[n]) = <<"<fence>">>
                           THEN SubSeq(lines, 2, n - 1)
                           ELSE SubSeq(lines, 2, n))
        ELSE cleaned

\* str.find and str.rfind of a one-character token: 0 stands for -1.
Find(t, tok) ==
    IF \E k \in DOMAIN t : t[k] = tok THEN Min({k \in DOMAIN t : t[k] = tok}) ELSE 0

RFind(t, tok) ==
    IF \E k \in DOMAIN t : t[k] = tok THEN Max({k \in DOMAIN t : t[k] = tok}) ELSE 0

\* A slice that stops one character early: cleaned[start : end]
ArraySliceShort(cleaned, start, end) == SubSeq(cleaned, start, end - 1)

\* cleaned[start : end + 1]
ArraySlice(cleaned, start, end) == SubSeq(cleaned, start, end)

\* json.loads of a text that starts with "[".  The scanner reads left to
\* right and raises at the first thing it cannot read: JSONDecodeError for a
\* syntax error, ValueError when int() refuses an integer literal of more than
\* 4300 digits (sys.int_info.default_max_str_digits).  A value is an atom or
\* an array; a nested array is kept as the item "<array>".
JsonAtoms == {"\"x\"", "{input:x}", "{d,y,1,true}", "{description:null}"}

\* The items read from one token: one per atom, eight for the run of objects.
ItemsOfToken(tok) ==
    IF tok = "<8 objects>" THEN [n \in 1..8 |-> "{input:x}"] ELSE <<tok>>

JsonFail(kind) == [ok |-> FALSE, error |-> kind, next |-> 0, items |-> << >>]

RECURSIVE JsonArray(_, _)
RECURSIVE JsonElements(_, _, _)

\* t[p] = "[": the array that starts at p.
JsonArray(t, p) ==
    IF p + 1 > Len(t) THEN JsonFail("JSONDecodeError")
    ELSE IF t[p + 1] = "]"
    THEN [ok |-> TRUE, error |-> "", next |-> p + 2, items |-> << >>]
    ELSE JsonElements(t, p + 1, << >>)

\* The elements from position p on, `acc` being those already read.
JsonElements(t, p, acc) ==
    IF p > Len(t) THEN JsonFail("JSONDecodeError")
    ELSE LET v == CASE t[p] \in JsonAtoms \cup {"<8 objects>"} ->
                          [ok |-> TRUE, error |-> "", next |-> p + 1,
                           items |-> ItemsOfToken(t[p])]
                    [] t[p] = "<4301 digits>" -> JsonFail("ValueError")
                    [] t[p] = "["             ->
                          LET a == JsonArray(t, p)
                          IN  IF a.ok THEN [a EXCEPT !.items = <<"<array>">>] ELSE a
                    [] OTHER                  -> JsonFail("JSONDecodeError")
         IN  IF ~v.ok THEN v
             ELSE IF v.next > Len(t) THEN JsonFail("JSONDecodeError")
             ELSE IF t[v.next] = ","
             THEN JsonElements(t, v.next + 1, acc \o v.items)
             ELSE IF t[v.next] = "]"
             THEN [ok |-> TRUE, error |-> "", next |-> v.next + 1, items |-> acc \o v.items]
             ELSE JsonFail("JSONDecodeError")

JsonLoads(text) ==
    LET t == SelectSeq(text, LAMBDA tok : tok \notin Whitespace)
    IN  IF t = << >> \/ t[1] # "[" THEN JsonFail("JSONDecodeError")
        ELSE LET a == JsonArray(t, 1)
             IN  IF a.ok /\ a.next # Len(t) + 1 THEN JsonFail("JSONDecodeError") ELSE a

ProposedTestCase(id, description, input, expected_output, is_edge_case) ==
    [id |-> id, description |-> description, input |-> input,
     expected_output |-> expected_output, is_edge_case |-> is_edge_case]

\* The loop body: the test case built from the k-th item, or nothing when
\* building it raises: AttributeError from item.get on a value that is no
\* object, ValidationError for a description that is no string.
TestFromItem(item, k) ==
    CASE item = "{input:x}"    -> <<ProposedTestCase(k, "Test case", "x", "", FALSE)>>
      [] item = "{d,y,1,true}" -> <<ProposedTestCase(k, "d", "y", "1", TRUE)>>
      [] OTHER                 -> << >>

\* A loop whose try block is around the whole loop: the first malformed item
\* ends it.
RECURSIVE TestsFromItemsUntilMalformed(_, _)
TestsFromItemsUntilMalformed(items, k) ==
    IF k > Len(items) \/ TestFromItem(items[k], k) = << >> THEN << >>
    ELSE TestFromItem(items[k], k) \o TestsFromItemsUntilMalformed(items, k + 1)

RECURSIVE TestsFromItems(_, _)
TestsFromItems(items, k) ==
    IF k > Len(items) THEN << >>
    ELSE TestFromItem(items[k], k) \o TestsFromItems(items, k + 1)

\* A fallback case that is flagged as an edge case.
FallbackTestsEdgeCase ==
    <<ProposedTestCase(1, "Basic test - replace with actual test cases",
                       "\"example\"", "True", TRUE)>>

FallbackTests ==
    <<ProposedTestCase(1, "Basic test - replace with actual test cases",
                       "\"example\"", "True", FALSE)>>

Returns(value) == [kind |-> "returned", tests |-> value, error |-> ""]
Raises(error) == [kind |-> "raised", tests |-> << >>, error |-> error]

\* A parser that keeps the first seven cases of the array.
ParseProposedTestsAtMost7(raw_response) ==
    LET cleaned == StripFences(raw_response)
        start   == Find(cleaned, "[")
        end     == RFind(cleaned, "]")
    IN  IF start = 0 \/ end = 0 THEN Returns(FallbackTests)
        ELSE LET data == JsonLoads(ArraySlice(cleaned, start, end))
             IN  IF ~data.ok
                 THEN IF data.error = "JSONDecodeError"
                      THEN Returns(FallbackTests)
                      ELSE Raises(data.error)
                 ELSE LET tests == TestsFromItems(data.items, 1)
                      IN  IF tests = << >> THEN Returns(FallbackTests)
                          ELSE Returns(SubSeq(tests, 1, Min({7, Len(tests)})))

\* _parse_proposed_tests: only json.JSONDecodeError is caught around json.loads.
ParseProposedTests(raw_response) ==
    LET cleaned == StripFences(raw_response)
        start   == Find(cleaned, "[")
        end     == RFind(cleaned, "]")
    IN  IF start = 0 \/ end = 0 THEN Returns(FallbackTests)
        ELSE LET data == JsonLoads(ArraySlice(cleaned, start, end))
             IN  IF ~data.ok
                 THEN IF data.error = "JSONDecodeError"
                      THEN Returns(FallbackTests)
                      ELSE Raises(data.error)
                 ELSE LET tests == TestsFromItems(data.items, 1)
                      IN  IF tests = << >> THEN Returns(FallbackTests) ELSE Returns(tests)

----------------------------------------------------------------------------
(* The texts the completion service returns in this model *)

FunctionTexts ==
    { <<"def f">>,
      <<"<fence>python", "\n", "def f", "\n", "<fence>">>,
      <<"junk">> }

TestTexts ==
    { <<"<fence>", "\n", "def test_a", "\n", "<fence>">> }

AnalysisTexts ==
    { <<"<fence>json", "\n", "{time,space,explanation}", "\n", "<fence>">>,
      <<"not json">> }

Completions(texts) == {Raised} \cup {Returned(t) : t \in texts}

----------------------------------------------------------------------------
(* api/generate.py and CodeGenerator *)

NoOutcome == [kind |-> "none", value |-> << >>]
NoResponse == [status |-> 0, results |-> << >>]
NoRun == [results |-> << >>, summary |-> << >>]
NoRequest == [requirements |-> << >>, approved_tests |-> None]

\* An executed step of function i, with the arguments of the call when the
\* step is run_tests.
Event(i, step, result) == [i |-> i, step |-> step, result |-> result, args |-> << >>]

\* generate_function, line 80: run_tests(function_code, test_code).
RunEvent(i, result, function, tests) ==
    [Event(i, "run", result) EXCEPT
        !.args = [function_code |-> function, test_code |-> tests]]

\* generate.py: the arguments generate_code passes to generate_functions.
EndpointArgs(req) == [requirements_list |-> req.requirements, approved_tests |-> None]

\* A handler that answers 200 with whatever it holds, whatever happened.
HandlerResponseNoRaise(kind, value) == [status |-> 200, results |-> value]

\* generate.py: what the handler answers when generate_functions has ended.
\* The response model is built inside the try block and requires at least
\* one result.
HandlerResponse(kind, value) ==
    IF kind = "returned" /\ Len(value) >= 1
    THEN [status |-> 200, results |-> value]
    ELSE [status |-> 500, results |-> << >>]

\* generate_functions: the approved tests handed to one requirement.
TestsForThis(reqs, i, approved) == IF reqs[i] = reqs[1] THEN approved ELSE None

\* A generate_function that analyzes right after the tests are written.
StepAfterTestsSkipsRun == "analyze"

\* A generate_function that asks the model for tests whatever it was given.
StepAfterSynthAlwaysGenerates(tests) == "gen_tests"

\* generate_function: the order of its steps.
StepAfterSynth(tests) == IF Truthy(tests) THEN "materialize" ELSE "gen_tests"
StepAfterTests == "run"
StepAfterRun == "analyze"

CodeResult(requirements, function, tests_code, run, complexity) ==
    [function_name |-> requirements.name,
     function |-> function,
     tests |-> [code |-> tests_code, results |-> run.results, summary |-> run.summary],
     complexity |-> complexity]

\* A loop that inserts each result at the front.
PrependResult(res, result) == <<result>> \o res

\* generate_functions: results.append(result)
AppendResult(res, result) == Append(res, result)

ClearLocals ==
    /\ function_code' = << >>
    /\ test_code' = << >>
    /\ test_run' = NoRun

\* The generate_functions call ends (kind: "returned" or "raised"); an http
\* entry answers in the same step.
Finish(who, kind, value) ==
    /\ pc' = "done"
    /\ outcome' = [kind |-> kind, value |-> value]
    /\ response' = IF who = "http" THEN HandlerResponse(kind, value) ELSE NoResponse
    /\ tests_for_this' = None
    /\ ClearLocals

\* A generate_functions that catches the exception and returns what it has.
PropagatePartial == Finish(entry, "returned", results)

\* An exception leaves generate_function and generate_functions: neither
\* catches anything, so the results collected so far are dropped.
Propagate == Finish(entry, "raised", << >>)

\* The head of "for requirements in requirements_list" at position i.
LoopAt(who, reqs, approved, i, res) ==
    /\ results' = res
    /\ IF i > Len(reqs)
       THEN /\ idx' = 0
            /\ Finish(who, "returned", res)
       ELSE /\ idx' = i
            /\ tests_for_this' = TestsForThis(reqs, i, approved)
            /\ pc' = "synth"
            /\ ClearLocals
            /\ UNCHANGED << outcome, response >>

\* A body model without the length constraint.
ValidAnyLength(req) == TRUE

\* GenerateCodeRequest: requirements has min_length=1.
Valid(req) == Len(req.requirements) >= 1

\* POST /generate-code with a body that fails validation (min_length=1).
RejectRequest ==
    /\ pc = "idle"
    /\ \E req \in Requests :
        /\ ~Valid(req)
        /\ request' = req
    /\ entry' = "http"
    /\ pc' = "done"
    /\ response' = [status |-> 422, results |-> << >>]
    /\ UNCHANGED << requirements_list, approved_tests, idx, tests_for_this,
                    function_code, test_code, test_run, results, outcome, trace >>
    /\ UNCHANGED << pvars, bvars, ovars, rvars, svars >>

\* POST /generate-code with a valid body: the handler up to the first step
\* of the first function.
generate_code ==
    /\ pc = "idle"
    /\ \E req \in Requests :
        /\ Valid(req)
        /\ request' = req
        /\ entry' = "http"
        /\ requirements_list' = EndpointArgs(req).requirements_list
        /\ approved_tests' = EndpointArgs(req).approved_tests
        /\ LoopAt("http", EndpointArgs(req).requirements_list,
                  EndpointArgs(req).approved_tests, 1, << >>)
    /\ UNCHANGED << trace, pvars, bvars, ovars, rvars, svars >>

\* CodeGenerator.generate_functions called by other code of the process.
generate_functions ==
    /\ pc = "idle"
    /\ \E reqs \in RequirementLists, approved \in ApprovedOptions :
        /\ entry' = "direct"
        /\ requirements_list' = reqs
        /\ approved_tests' = approved
        /\ LoopAt("direct", reqs, approved, 1, << >>)
    /\ UNCHANGED << request, trace, pvars, bvars, ovars, rvars, svars >>

\* _generate_function_code: one completion call, then the clean-up.
Synthesize ==
    /\ pc = "synth"
    /\ \E c \in Completions(FunctionTexts) :
        IF c.ok
        THEN /\ function_code' = CleanCode(c.text)
             /\ pc' = StepAfterSynth(tests_for_this)
             /\ trace' = Append(trace, Event(idx, "synth", "ok"))
             /\ UNCHANGED << test_code, test_run, tests_for_this, outcome, response,
                             results, idx >>
        ELSE /\ trace' = Append(trace, Event(idx, "synth", "raised"))
             /\ Propagate
             /\ UNCHANGED << results, idx >>
    /\ UNCHANGED << entry, request, requirements_list, approved_tests, pvars, bvars, ovars, rvars, svars >>

\* _build_test_code_from_approved: no completion call.
Materialize ==
    /\ pc = "materialize"
    /\ test_code' = BuildTestCodeFromApproved(requirements_list[idx], tests_for_this.cases)
    /\ pc' = StepAfterTests
    /\ trace' = Append(trace, Event(idx, "materialize", "ok"))
    /\ UNCHANGED << entry, request, requirements_list, approved_tests, idx,
                    tests_for_this, function_code, test_run, results, outcome,
                    response, pvars, bvars, ovars, rvars, svars >>

\* _generate_tests: one completion call, then the clean-up.
GenerateTests ==
    /\ pc = "gen_tests"
    /\ \E c \in Completions(TestTexts) :
        IF c.ok
        THEN /\ test_code' = CleanCode(c.text)
             /\ pc' = StepAfterTests
             /\ trace' = Append(trace, Event(idx, "gen_tests", "ok"))
             /\ UNCHANGED << function_code, test_run, tests_for_this, outcome, response,
                             results, idx >>
        ELSE /\ trace' = Append(trace, Event(idx, "gen_tests", "raised"))
             /\ Propagate
             /\ UNCHANGED << results, idx >>
    /\ UNCHANGED << entry, request, requirements_list, approved_tests, pvars, bvars, ovars, rvars, svars >>

\* TestRunner.run_tests: the temporary directory, the two files, the process.
RunTests ==
    /\ pc = "run"
    /\ \E env \in RunEnvs, output \in PytestOutputs :
        IF RunRaises(env)
        THEN /\ trace' = Append(trace, RunEvent(idx, "raised", function_code, test_code))
             /\ Propagate
             /\ UNCHANGED << results, idx >>
        ELSE /\ test_run' = RunTestsReturn(env, output)
             /\ pc' = StepAfterRun
             /\ trace' = Append(trace,
                    RunEvent(idx, IF env = "ran" THEN "ok" ELSE "caught",
                             function_code, test_code))
             /\ UNCHANGED << function_code, test_code, tests_for_this, outcome,
                             response, results, idx >>
    /\ UNCHANGED << entry, request, requirements_list, approved_tests, pvars, bvars, ovars, rvars, svars >>

\* ComplexityAnalyzer.analyze, then the CodeResult, then the next loop round.
AnalyzeStep ==
    /\ pc = "analyze"
    /\ \E c \in Completions(AnalysisTexts) :
        /\ trace' = Append(trace, Event(idx, "analyze", IF c.ok THEN "ok" ELSE "caught"))
        /\ LoopAt(entry, requirements_list, approved_tests, idx + 1,
                  AppendResult(results,
                      CodeResult(requirements_list[idx], function_code, test_code,
                                 test_run, Analyze(c))))
    /\ UNCHANGED << entry, request, requirements_list, approved_tests, pvars, bvars, ovars, rvars, svars >>

\* TestProposer.propose_tests: one completion call, then the parsing.
propose_tests ==
    /\ p_pc = "idle"
    /\ \E c \in Completions(ProposerTexts) :
        /\ p_completion' = c
        /\ p_out' = IF c.ok THEN ParseProposedTests(c.text)
                    ELSE Raises("RuntimeError")
    /\ p_pc' = "done"
    /\ UNCHANGED << gvars, bvars, ovars, rvars, svars >>

----------------------------------------------------------------------------
(* flowchart_generator.py and models/flowchart.py *)

FlowchartNode(id, type) == [id |-> id, type |-> type]

FlowchartEdge(id, from_node, to_node) ==
    [id |-> id, from_node |-> from_node, to_node |-> to_node]

Flowchart(nodes, edges) == [nodes |-> nodes, edges |-> edges]

\* f"e{n}"
EdgeId(n) == <<"e", n>>

\* An id that does not look at the edges made so far.
NextEdgeIdFixed(edges) == EdgeId(2)

\* f"e{len(edges)+1}"
NextEdgeId(edges) == EdgeId(Len(edges) + 1)

\* A fallback with no output node: start, [input], process, end.
CreateFallbackFlowchartNoOutput(requirements) ==
    LET withInput == Len(requirements.parameters) > 0
        last1 == IF withInput THEN "input" ELSE "start"
        nodes1 == IF withInput
                  THEN << FlowchartNode("start", "start"), FlowchartNode("input", "input") >>
                  ELSE << FlowchartNode("start", "start") >>
        edges1 == IF withInput THEN << FlowchartEdge(EdgeId(1), "start", "input") >> ELSE << >>
        edges2 == Append(edges1, FlowchartEdge(NextEdgeId(edges1), last1, "process"))
    IN  Flowchart(nodes1 \o << FlowchartNode("process", "function"), FlowchartNode("end", "end") >>,
                  Append(edges2, FlowchartEdge(NextEdgeId(edges2), "process", "end")))

\* _create_fallback_flowchart: the nodes and edges, statement by statement.
CreateFallbackFlowchart(requirements) ==
    LET nodes0 == << FlowchartNode("start", "start") >>
        edges0 == << >>
        withInput == Len(requirements.parameters) > 0
        nodes1 == IF withInput THEN Append(nodes0, FlowchartNode("input", "input")) ELSE nodes0
        edges1 == IF withInput
                  THEN Append(edges0, FlowchartEdge(EdgeId(1), "start", "input"))
                  ELSE edges0
        last1 == IF withInput THEN "input" ELSE "start"
        nodes2 == Append(nodes1, FlowchartNode("process", "function"))
        edges2 == Append(edges1, FlowchartEdge(NextEdgeId(edges1), last1, "process"))
        nodes3 == Append(nodes2, FlowchartNode("output", "output"))
        edges3 == Append(edges2, FlowchartEdge(NextEdgeId(edges2), "process", "output"))
        nodes4 == Append(nodes3, FlowchartNode("end", "end"))
        edges4 == Append(edges3, FlowchartEdge(NextEdgeId(edges3), "output", "end"))
    IN  Flowchart(nodes4, edges4)

\* The JSON documents of a flowchart response, one token each.
GoodDocument == "{nodes:[start,end],edges:[e1]}"

FlowchartDocuments ==
    {GoodDocument,
     "{nodes:[{type:bogus}]}",     \* a node whose type is no FlowchartNodeType
     "{nodes:[{x:abc}]}",          \* a node whose x is not a number
     "[1]",                        \* not an object
     "{nodes:[]}",                 \* no node
     "{nodes:[{}]}"}               \* a node without "id"

\* _parse_flowchart_response: the exception it raises, "none" when it
\* returns a Flowchart.
ParseFlowchartError(document) ==
    CASE document = GoodDocument              -> "none"
      [] document = "{nodes:[{type:bogus}]}"  -> "ValueError"       \* FlowchartNodeType("bogus")
      [] document = "{nodes:[{x:abc}]}"       -> "ValueError"       \* float("abc")
      [] document = "[1]"                     -> "AttributeError"   \* list has no get
      [] document = "{nodes:[]}"              -> "ValidationError"  \* min_length=1
      [] document = "{nodes:[{}]}"            -> "KeyError"         \* node_data["id"]

ParseFlowchartResponse(document) ==
    Flowchart(<< FlowchartNode("node1", "start"), FlowchartNode("node2", "end") >>,
              << FlowchartEdge(EdgeId(1), "node1", "node2") >>)

\* What is left of a token that lost its last character.
Cut == "<cut>"

\* json_text[start:end].strip(), start being the position after a fence and
\* end = json_text.find("```", start); with no later fence end is -1 and the
\* slice stops one character before the end of the text.
FencedText(json_text, start) ==
    LET later == {k \in start..Len(json_text) : json_text[k] \in FenceTokens}
    IN  IF later # {} THEN Strip(SubSeq(json_text, start, Min(later) - 1))
        ELSE IF start > Len(json_text) THEN << >>
        ELSE Strip(Append(SubSeq(json_text, start, Len(json_text) - 1), Cut))

\* generate_flowchart, lines 51-61.
ExtractJsonText(llm_response) ==
    LET json_text == Strip(llm_response)
    IN  IF Find(json_text, "<fence>json") # 0
        THEN FencedText(json_text, Find(json_text, "<fence>json") + 1)
        ELSE IF Find(json_text, "<fence>") # 0
        THEN FencedText(json_text, Find(json_text, "<fence>") + 1)
        ELSE json_text

\* The exception raised by generate_flowchart before any handler is
\* considered: by the completion call, by json.loads, or by
\* _parse_flowchart_response.
FlowchartError(completion) ==
    IF ~completion.ok THEN "RuntimeError"
    ELSE LET json_text == ExtractJsonText(completion.text)
         IN  IF Len(json_text) = 1 /\ json_text[1] \in FlowchartDocuments
             THEN ParseFlowchartError(json_text[1])
             ELSE "JSONDecodeError"

\* except (json.JSONDecodeError, KeyError).  The completion call is made
\* before the try statement is entered, and its RuntimeError is in neither
\* class.
CaughtByGenerateFlowchart == {"JSONDecodeError", "KeyError"}

GenerateFlowchart(requirements, completion) ==
    LET error == FlowchartError(completion)
    IN  IF error = "none"
        THEN Gives(ParseFlowchartResponse(ExtractJsonText(completion.text)[1]))
        ELSE IF error \in CaughtByGenerateFlowchart
        THEN Gives(CreateFallbackFlowchart(requirements))
        ELSE Fails(error)

FlowchartTokens == {"<fence>json", "<fence>", "\n", "prose"} \cup FlowchartDocuments

MaxFlowLen == 3

FlowchartTexts == UNION {[1..n -> FlowchartTokens] : n \in 0..MaxFlowLen}

MaxParams == 2

\* FunctionRequirements with its parameters: only their number matters.
FlowchartRequirements ==
    {[name |-> "f", purpose |-> "p", parameters |-> [k \in 1..n |-> "a"]] : n \in 0..MaxParams}

\* FlowchartGenerator.generate_flowchart called on its own.
generate_flowchart ==
    /\ s_call = "none"
    /\ \E requirements \in FlowchartRequirements,
          c \in {Raised} \cup {Returned(t) : t \in FlowchartTexts} :
        /\ s_in' = [requirements |-> requirements, completion |-> c]
        /\ s_out' = GenerateFlowchart(requirements, c)
    /\ s_call' = "flowchart"
    /\ UNCHANGED << gvars, pvars, bvars, ovars, rvars >>

----------------------------------------------------------------------------
(* ollama_client.py: health_check, and api/health.py *)

\* self.model
ConfiguredModel == "m1"

\* What client.list() does: it raises, or returns something without a get
\* method, or returns a mapping whose "models" is a list of entries.  An
\* entry is an object with a model attribute, a dict with "name" and "model"
\* keys (Absent when the key is missing), or anything else, known by its str().
Absent == "<absent>"

Unreachable == [kind |-> "raises", models |-> << >>]

NoMapping == [kind |-> "no get", models |-> << >>]

Listing(models) == [kind |-> "mapping", models |-> models]

ModelEntries ==
    [shape : {"object"}, name : {Absent}, model : {"m1", "m2"}]
        \cup [shape : {"dict"}, name : {Absent, "m1", "m2"}, model : {Absent, "m1"}]
        \cup [shape : {"other"}, name : {"m1", "x"}, model : {Absent}]

MaxModels == 2

Listings ==
    {Unreachable, NoMapping}
        \cup {Listing(m) : m \in UNION {[1..n -> ModelEntries] : n \in 0..MaxModels}}

\* Lines 89-99: the names one entry adds to model_names.
NamesOfEntry(model_entry) ==
    IF model_entry.shape = "object" THEN << model_entry.model >>
    ELSE IF model_entry.shape = "dict"
    THEN LET name == IF model_entry.name # Absent THEN model_entry.name ELSE model_entry.model
         IN  IF name # Absent THEN << name >> ELSE << >>
    ELSE << model_entry.name >>

RECURSIVE ModelNames(_)
ModelNames(models_list) ==
    IF models_list = << >> THEN << >>
    ELSE NamesOfEntry(Head(models_list)) \o ModelNames(Tail(models_list))

\* A status that tells only that the service answered.
HealthStatusConnected(is_available) == "ok"

\* "ok" if is_available else "model_not_found"
HealthStatus(is_available) == IF is_available THEN "ok" ELSE "model_not_found"

\* The exception raised inside the try block of OllamaClient.health_check.
HealthError(listing) ==
    CASE listing.kind = "raises" -> "ConnectionError"
      [] listing.kind = "no get" -> "AttributeError"
      [] OTHER                   -> "none"

\* except Exception
CaughtByHealthCheck == ExceptionClasses

\* A dict is a function from its keys.
Get(dict, key, default) == IF key \in DOMAIN dict THEN dict[key] ELSE default

\* OllamaClient.health_check: the dict it returns.
OllamaHealthCheck(listing) ==
    IF HealthError(listing) = "none"
    THEN LET model_names == ModelNames(listing.models)
             is_available == ConfiguredModel \in Range(model_names)
         IN  [status |-> HealthStatus(is_available),
              available_models |-> model_names,
              model_available |-> is_available]
    ELSE [status |-> "error", error |-> HealthError(listing)]

\* api/health.py: the HealthResponse built from that dict.
HealthResponse(llm_health) ==
    [status |-> Get(llm_health, "status", "unknown"),
     model_available |-> Get(llm_health, "model_available", FALSE)]

\* GET /health.
health_check ==
    /\ s_call = "none"
    /\ \E listing \in Listings :
        /\ s_in' = listing
        /\ s_out' = IF HealthError(listing) = "none" \/ HealthError(listing) \in CaughtByHealthCheck
                    THEN Gives(HealthResponse(OllamaHealthCheck(listing)))
                    ELSE Fails(HealthError(listing))
    /\ s_call' = "health"
    /\ UNCHANGED << gvars, pvars, bvars, ovars, rvars >>

NoCall == [kind |-> "none", tests |-> << >>, error |-> ""]

Init ==
    /\ s_call = "none"
    /\ s_in = << >>
    /\ s_out = << >>
    /\ b_pc = "idle"
    /\ b_tests = << >>
    /\ b_code = << >>
    /\ o_pc = "idle"
    /\ o_output = << >>
    /\ o_parsed = NoRun
    /\ calls = [c \in Calls |-> NewCall]
    /\ dirs = [d \in DirNames |-> NoDir]
    /\ procs = {}
    /\ p_pc = "idle"
    /\ p_completion = Raised
    /\ p_out = NoCall
    /\ pc = "idle"
    /\ entry = "none"
    /\ request = NoRequest
    /\ requirements_list = << >>
    /\ approved_tests = None
    /\ idx = 0
    /\ tests_for_this = None
    /\ function_code = << >>
    /\ test_code = << >>
    /\ test_run = NoRun
    /\ results = << >>
    /\ outcome = NoOutcome
    /\ response = NoResponse
    /\ trace = << >>

Next ==
    \/ RejectRequest
    \/ generate_code
    \/ generate_functions
    \/ Synthesize
    \/ Materialize
    \/ GenerateTests
    \/ RunTests
    \/ AnalyzeStep

Spec == Init /\ [][Next]_vars

NextPropose == propose_tests

SpecPropose == Init /\ [][NextPropose]_vars

NextRun ==
    \E c \in Calls :
        \/ EnterWith(c)
        \/ WriteFunctionFile(c)
        \/ WriteTestFile(c)
        \/ CreateSubprocess(c)
        \/ Communicate(c)

SpecRun == Init /\ [][NextRun]_vars

NextService ==
    \/ analyze
    \/ generate_flowchart
    \/ health_check

SpecService == Init /\ [][NextService]_vars

NextParse == parse_output

SpecParse == Init /\ [][NextParse]_vars

NextBuild == build_test_code

SpecBuild == Init /\ [][NextBuild]_vars

----------------------------------------------------------------------------
(* Properties of the /generate-code pipeline, checked under Spec *)

CompletionSteps == {"synth", "gen_tests", "analyze"}

CompletionEvents == {k \in DOMAIN trace : trace[k].step \in CompletionSteps}

\* An http request that passed validation and has been answered.
Answered == entry = "http" /\ pc = "done" /\ Len(request.requirements) >= 1

\* C1: when every completion call of an accepted /generate-code request
\* raises, the answer is a 500 and carries no CodeResult.
C1_UnreachableServiceFails ==
    (Answered /\ \A k \in CompletionEvents : trace[k].result # "ok")
        => response = [status |-> 500, results |-> << >>]

C1_Witness ==
    /\ Answered
    /\ CompletionEvents # {}
    /\ \A k \in CompletionEvents : trace[k].result # "ok"
    /\ response.status = 500

\* C2 (as claimed): an accepted request all of whose completion calls
\* returned text is always answered with a success.
C2_AcceptedAlwaysSucceeds ==
    (Answered /\ \A k \in CompletionEvents : trace[k].result = "ok")
        => response.status = 200

\* C3 (as claimed): a completion failure at any step makes the request fail.
C3_AnyUpstreamFailureFails ==
    (Answered /\ \E k \in CompletionEvents : trace[k].result # "ok")
        => response.status = 500

\* C3 (amended): a completion failure at function synthesis or test synthesis
\* raises and makes the request a failure; a failure at complexity analysis is
\* caught by the analyzer, which returns the O(?) sentinel for that function,
\* and does not fail the request.
C3_SynthesisFailsAnalysisDegrades ==
    \A k \in CompletionEvents :
        trace[k].result # "ok" =>
            IF trace[k].step = "analyze"
            THEN /\ trace[k].result = "caught"
                 /\ Len(results) >= trace[k].i
                 /\ results[trace[k].i].complexity.time = "O(?)"
                 /\ results[trace[k].i].complexity.space = "O(?)"
                 /\ (pc = "done" /\ k = Len(trace)) => outcome.kind = "returned"
            ELSE /\ pc = "done"
                 /\ outcome.kind = "raised"
                 /\ entry = "http" => response.status = 500

C3_Witness ==
    /\ Answered
    /\ response.status = 200
    /\ \E k \in CompletionEvents : trace[k].step = "analyze" /\ trace[k].result = "caught"

\* C4: a generate_functions call that returns gives one CodeResult per
\* requirement, the i-th named after the i-th requirement.
C4_OneResultPerRequirementInOrder ==
    outcome.kind = "returned" =>
        /\ Len(outcome.value) = Len(requirements_list)
        /\ \A i \in DOMAIN requirements_list :
               outcome.value[i].function_name = requirements_list[i].name

C4_Witness ==
    /\ outcome.kind = "returned"
    /\ Len(outcome.value) = 2
    /\ requirements_list[1].name # requirements_list[2].name

\* C5 (as claimed): the approved tests of a /generate-code request are applied
\* to the first requirement: its test code is their rendering and there is no
\* completion call for its tests.
C5_ApprovedTestsOfRequestApplied ==
    (entry = "http" /\ Len(request.requirements) >= 1 /\ Truthy(request.approved_tests))
        => /\ \A k \in DOMAIN trace : trace[k].i = 1 => trace[k].step # "gen_tests"
           /\ (idx = 1 /\ pc \in {"run", "analyze"}) =>
                  test_code = BuildTestCodeFromApproved(request.requirements[1],
                                                        request.approved_tests.cases)

\* C6 (as claimed): with approved tests given to generate_functions, every
\* requirement after the first is generated with no approved tests.
C6_OnlyFirstRequirementGetsApproved ==
    (entry = "direct" /\ Truthy(approved_tests))
        => /\ (idx > 1 /\ pc # "done") => tests_for_this = None
           /\ \A k \in DOMAIN trace : trace[k].step = "materialize" => trace[k].i = 1

\* C7: a step that raises is the last step of the call: the call raises,
\* returns no CodeResult (an http entry answers 500 without results), no
\* later function is started and no step is run twice.
C7_AllOrErrorNoRetry ==
    /\ \A k \in DOMAIN trace :
           trace[k].result = "raised" =>
               /\ k = Len(trace)
               /\ pc = "done"
               /\ outcome = [kind |-> "raised", value |-> << >>]
               /\ entry = "http" => response = [status |-> 500, results |-> << >>]
    /\ \A j, k \in DOMAIN trace :
           (trace[j].i = trace[k].i /\ trace[j].step = trace[k].step) => j = k

C7_Witness ==
    /\ pc = "done"
    /\ Len(trace) >= 1
    /\ trace[Len(trace)].result = "raised"
    /\ trace[Len(trace)].i = 2
    /\ Len(results) = 1
    /\ outcome.value = << >>

Rank(step) ==
    CASE step = "synth"       -> 1
      [] step = "gen_tests"   -> 2
      [] step = "materialize" -> 2
      [] step = "run"         -> 3
      [] step = "analyze"     -> 4

\* C8: the steps of one call run in the order synthesis, test
\* materialization, test execution, complexity analysis, and function i+1
\* starts only after the analysis of function i.
C8_StepsStrictlyOrdered ==
    \A k \in DOMAIN trace :
        IF k = 1
        THEN trace[k].i = 1 /\ Rank(trace[k].step) = 1
        ELSE \/ /\ trace[k].i = trace[k - 1].i
                /\ Rank(trace[k].step) = Rank(trace[k - 1].step) + 1
             \/ /\ trace[k].i = trace[k - 1].i + 1
                /\ Rank(trace[k].step) = 1
                /\ Rank(trace[k - 1].step) = 4

C8_Witness ==
    /\ pc = "done"
    /\ Len(trace) = 8
    /\ trace[4].i = 1 /\ trace[4].step = "analyze"
    /\ trace[5].i = 2 /\ trace[5].step = "synth"

----------------------------------------------------------------------------
(* Properties of the test proposer, checked under SpecPropose *)

\* propose_tests has ended and its completion call had returned text.
Proposed == p_pc = "done" /\ p_completion.ok

\* C9 (as claimed): whatever text the completion call returns, propose_tests
\* returns at least one test case and does not raise.
C9_AlwaysAtLeastOneTest ==
    Proposed => (p_out.kind = "returned" /\ Len(p_out.tests) >= 1)

\* The text is `array` at position k with bracket-free text around it.
ArrayInProse(text, array, k) ==
    /\ k >= 1
    /\ k + Len(array) - 1 <= Len(text)
    /\ SubSeq(text, k, k + Len(array) - 1) = array
    /\ \A n \in DOMAIN text :
           (n < k \/ n > k + Len(array) - 1) => text[n] \notin {"[", "]"}

\* The text opens with a code fence and position k is on the fence's line.
OnFenceLine(text, k) ==
    /\ StartsWithFence(Strip(text))
    /\ LET first == Min({n \in DOMAIN text : text[n] \notin Whitespace})
       IN  \A n \in first..(k - 1) : text[n] # "\n"

StringArray == <<"[", "\"x\"", "]">>
ObjectArray == <<"[", "{input:x}", "]">>

OneTestWithInputX(out) ==
    /\ out.kind = "returned"
    /\ Len(out.tests) = 1
    /\ out.tests[1].input = "x"
    /\ out.tests # FallbackTests

\* C10 (as claimed): from any text holding the array ["x"] and prose around
\* it, exactly one test case with input "x" is parsed, not the fallback.
C10_StringArrayRecovered ==
    (Proposed /\ \E k \in DOMAIN p_completion.text :
                     ArrayInProse(p_completion.text, StringArray, k))
        => OneTestWithInputX(p_out)

\* C10 (amended): from any text holding the array [{"input": "x"}] and
\* bracket-free prose around it, the array not being on the opening line of a
\* fenced text, exactly one test case is parsed, with input "x" and the other
\* fields defaulted, and not the fallback; with the array ["x"] in its place
\* the element is no object and is skipped, and the fallback case is returned.
C10_ObjectArrayRecovered ==
    Proposed =>
        \A k \in DOMAIN p_completion.text :
            ~OnFenceLine(p_completion.text, k) =>
                /\ ArrayInProse(p_completion.text, ObjectArray, k) =>
                       /\ OneTestWithInputX(p_out)
                       /\ p_out.tests[1].description = "Test case"
                       /\ p_out.tests[1].expected_output = ""
                       /\ p_out.tests[1].is_edge_case = FALSE
                /\ ArrayInProse(p_completion.text, StringArray, k) =>
                       p_out = Returns(FallbackTests)

C10_Witness ==
    /\ Proposed
    /\ p_completion.text = <<"prose", "[", "{input:x}", "]", "prose">>
    /\ OneTestWithInputX(p_out)

\* Some bracket is missing from the text: it has no "[" or it has no "]".
NoBracketPair(text) ==
    \/ \A k \in DOMAIN text : text[k] # "["
    \/ \A k \in DOMAIN text : text[k] # "]"

\* The fields of a test case other than its random id.
Fields(t) ==
    [description |-> t.description, input |-> t.input,
     expected_output |-> t.expected_output, is_edge_case |-> t.is_edge_case]

FallbackFields ==
    [description |-> "Basic test - replace with actual test cases",
     input |-> "\"example\"", expected_output |-> "True", is_edge_case |-> FALSE]

\* C11: from a text that has no "[" or no "]", propose_tests returns exactly
\* one test case, the canned fallback, whose is_edge_case is false.
C11_NoArrayGivesFallback ==
    (Proposed /\ NoBracketPair(p_completion.text))
        => /\ p_out.kind = "returned"
           /\ Len(p_out.tests) = 1
           /\ Fields(p_out.tests[1]) = FallbackFields
           /\ p_out.tests[1].is_edge_case = FALSE

C11_Witness ==
    /\ Proposed
    /\ p_completion.text = <<"prose", "[", "{input:x}">>
    /\ Len(p_out.tests) = 1
    /\ Fields(p_out.tests[1]) = FallbackFields

\* The elements of a response that is one JSON array, in array order.
RECURSIVE Elements(_)
Elements(text) ==
    IF text = << >> THEN << >>
    ELSE (CASE Head(text) = "<8 objects>" -> [n \in 1..8 |-> "{input:x}"]
            [] Head(text) \in {"[", ",", "]"} -> << >>
            [] OTHER -> <<Head(text)>>) \o Elements(Tail(text))

\* The elements that are objects whose fields pass model validation, and the
\* fields each of them must give.
WellFormed == {"{input:x}", "{d,y,1,true}"}

ExpectedFields(element) ==
    CASE element = "{input:x}" ->
             [description |-> "Test case", input |-> "x",
              expected_output |-> "", is_edge_case |-> FALSE]
      [] element = "{d,y,1,true}" ->
             [description |-> "d", input |-> "y",
              expected_output |-> "1", is_edge_case |-> TRUE]

Survivors(text) == SelectSeq(Elements(text), LAMBDA e : e \in WellFormed)

\* C12 (as claimed): the returned list has between 1 and 7 elements.
C12_BetweenOneAndSeven ==
    (Proposed /\ p_out.kind = "returned")
        => (Len(p_out.tests) >= 1 /\ Len(p_out.tests) <= 7)

\* C12 (amended): the returned list has at least one element and its length
\* is not capped: an array with n >= 1 well-formed elements gives n cases,
\* eight or more included.
C12_AtLeastOneNoUpperBound ==
    (Proposed /\ p_out.kind = "returned")
        => /\ Len(p_out.tests) >= 1
           /\ (p_completion.text \in ArrayTexts
                   /\ Len(Survivors(p_completion.text)) >= 1)
                  => Len(p_out.tests) = Len(Survivors(p_completion.text))

C12_Witness ==
    /\ Proposed
    /\ p_completion.text = <<"[", "<8 objects>", "]">>
    /\ p_out.kind = "returned"
    /\ Len(p_out.tests) = 8

\* C13: when the response is a JSON array that mixes well-formed and
\* malformed elements, nothing is raised, the result is the well-formed
\* elements in array order with their missing fields defaulted, and the
\* fallback case is returned exactly when no element survives.
C13_MalformedSkippedOrderKept ==
    (Proposed /\ p_completion.text \in ArrayTexts)
        => LET kept == Survivors(p_completion.text)
           IN  /\ p_out.kind = "returned"
               /\ IF kept = << >>
                  THEN /\ Len(p_out.tests) = 1
                       /\ Fields(p_out.tests[1]) = FallbackFields
                  ELSE /\ Len(p_out.tests) = Len(kept)
                       /\ \A i \in DOMAIN kept :
                              Fields(p_out.tests[i]) = ExpectedFields(kept[i])

C13_Witness ==
    /\ Proposed
    /\ p_completion.text = <<"[", "{d,y,1,true}", ",", "\"x\"", ",", "{input:x}", "]">>
    /\ Len(p_out.tests) = 2
    /\ p_out.tests[1].input = "y"
    /\ p_out.tests[2].input = "x"
    /\ p_out.tests[2].description = "Test case"

----------------------------------------------------------------------------
(* Properties of _build_test_code_from_approved, checked under SpecBuild *)

Built == b_pc = "done"

\* The lines of the returned module that open a test function, and those
\* that are an assertion statement.
DefLines == SelectSeq(SplitLines(b_code), LAMBDA l : l # << >> /\ Head(l) = "def test_")

AssertLines == SelectSeq(SplitLines(b_code), LAMBDA l : l # << >> /\ Head(l) = "    assert ")

\* The characters of the identifier a def line defines, after its test_ prefix.
NameSuffix(line) == SubSeq(line, 2, Len(line) - 1)

BareIdentifierChars == Range(LowerLetters) \cup Digits \cup {"_"}

\* C14 (as claimed): one assertion statement per approved case, and every
\* test identifier is made only of lowercase letters, digits and
\* underscores, its sanitized part being at most 60 characters long.
C14_OneAssertPerCaseBareIdentifiers ==
    Built =>
        /\ Len(AssertLines) = Len(b_tests)
        /\ Len(DefLines) = Len(b_tests)
        /\ \A i \in DOMAIN DefLines :
               /\ Len(NameSuffix(DefLines[i])) <= MaxIdentLen
               /\ \A k \in DOMAIN NameSuffix(DefLines[i]) :
                      NameSuffix(DefLines[i])[k] \in BareIdentifierChars

\* C15 (as claimed): approved cases with pairwise different descriptions give
\* test functions with pairwise different names.
C15_DifferentDescriptionsDifferentNames ==
    (Built /\ \A i, j \in DOMAIN b_tests :
                 i # j => b_tests[i].description # b_tests[j].description)
        => /\ Len(DefLines) = Len(b_tests)
           /\ \A i, j \in DOMAIN DefLines : i # j => DefLines[i] # DefLines[j]

----------------------------------------------------------------------------
(* Properties of the two output parsers, checked under SpecParse *)

Parsed == o_pc = "done"

\* The output has no line of the shape test_<module>.py::<name> PASSED|FAILED.
NoResultLine(output) == \A k \in DOMAIN output : ~MatchAt(output, k)

\* The output has a line of the shape <tally> in <seconds>s.
HasTallyLine(output) == \E k \in DOMAIN output : SummaryEnds(output, k) # {}

OnlyUnknownResult(parsed) ==
    /\ Len(parsed.results) = 1
    /\ parsed.results[1].name = "unknown"
    /\ parsed.results[1].passed = FALSE

----------------------------------------------------------------------------
(* Properties of run_tests, checked under SpecRun *)

Ended(c) == calls[c].pc = "done"

\* The call is inside its with block.
Live(c) == calls[c].pc \in {"write_function", "write_test", "launch", "communicate"}

\* C16: every return of run_tests carries at least one TestCaseResult, on
\* the parse path, on the no-match path and on the execution-error path.
C16_ReturnedListNeverEmpty ==
    \A c \in Calls :
        calls[c].ret.kind = "returned" =>
            /\ Len(calls[c].ret.results) >= 1
            /\ calls[c].path \in {"ran", "spawn_error", "communicate_error"}

C16_Witness ==
    \E c, d \in Calls :
        /\ calls[c].path = "ran"
        /\ calls[c].ret.results[1].name = "unknown"
        /\ calls[d].path = "spawn_error"
        /\ calls[d].ret.results[1].name = "test_execution_error"

\* C18 (as claimed): run_tests never raises; a call that met a failure of its
\* execution environment returns the one test_execution_error result with
\* the summary 0 passed, 1 failed.
C18_NeverRaisesEnvironmentFailureReturned ==
    \A c \in Calls :
        (Ended(c) /\ calls[c].path # "ran") =>
            /\ calls[c].ret.kind = "returned"
            /\ Len(calls[c].ret.results) = 1
            /\ calls[c].ret.results[1].name = "test_execution_error"
            /\ calls[c].ret.summary = <<"0 passed, 1 failed">>

\* C19: once a call has ended, by a return or by an exception, no directory
\* made by it exists any more and no file written by it is left.
C19_DirectoryGoneOnEveryExit ==
    \A c \in Calls :
        Ended(c) =>
            /\ \A d \in DirNames : ~(dirs[d].exists /\ dirs[d].owner = c)
            /\ \A d \in DirNames :
                   \A f \in dirs[d].files : f.writer # c

C19_Witness ==
    \E c, d \in Calls :
        /\ Ended(c) /\ calls[c].path = "write_error" /\ calls[c].tmpdir # 0
        /\ Ended(d) /\ calls[d].path = "ran" /\ calls[d].tmpdir # 0
        /\ \A n \in DirNames : ~dirs[n].exists

\* C20 (as claimed): every call that returns has spawned exactly one test
\* process.
C20_EveryCallSpawnsExactlyOne ==
    \A c \in Calls : calls[c].ret.kind = "returned" => calls[c].launched = 1

\* The files a live call has written so far.
FilesAt(c) ==
    CASE calls[c].pc = "write_function" -> {}
      [] calls[c].pc = "write_test"     -> {[name |-> "function.py", writer |-> c]}
      [] OTHER -> {[name |-> "function.py", writer |-> c],
                   [name |-> "test_function.py", writer |-> c]}

\* C20 (amended): a call launches at most one test process: exactly one once
\* its directory and files are written and the launch succeeds, none when
\* making the directory, writing a file or the launch fails.  Live calls
\* have pairwise different directories, and the directory of a live call
\* exists and holds exactly the files that call wrote, whatever the other
\* calls create, write or clean up.
C20_OwnDirectoryAtMostOneProcess ==
    /\ \A c \in Calls :
           /\ calls[c].launched = Cardinality({p \in procs : p.call = c})
           /\ calls[c].launched =
                  IF calls[c].pc = "communicate"
                     \/ calls[c].path \in {"ran", "communicate_error"}
                  THEN 1 ELSE 0
           /\ \A p \in procs : p.call = c => p.cwd = calls[c].tmpdir
    /\ \A c, d \in Calls :
           (c # d /\ Live(c) /\ Live(d)) => calls[c].tmpdir # calls[d].tmpdir
    /\ \A c \in Calls :
           Live(c) =>
               /\ dirs[calls[c].tmpdir].exists
               /\ dirs[calls[c].tmpdir].owner = c
               /\ dirs[calls[c].tmpdir].files = FilesAt(c)

C20_Witness ==
    \E c, d \in Calls :
        /\ c # d
        /\ calls[c].pc = "communicate" /\ calls[c].launched = 1
        /\ Ended(d) /\ calls[d].path = "ran" /\ calls[d].launched = 1
        /\ dirs[calls[c].tmpdir].files = FilesAt(c)

----------------------------------------------------------------------------
(* Properties of the stand-alone services, checked under SpecService *)

Analyzed == s_call = "analyze"

\* C21: analyze never raises; when the completion call fails, or its text
\* does not hold the JSON object with the three string fields, it returns
\* time O(?), space O(?) and a non-empty explanation.
C21_AnalyzeNeverRaises ==
    Analyzed =>
        /\ s_out.kind = "returned"
        /\ (~s_in.ok \/ \A k \in DOMAIN s_in.text : s_in.text[k] # "{time,space,explanation}")
               => /\ s_out.value.time = "O(?)"
                  /\ s_out.value.space = "O(?)"
                  /\ s_out.value.explanation # ""

C21_Witness ==
    /\ Analyzed
    /\ s_in = Returned(<<"<fence>json", "{time:1,space:1,explanation:1}", "<fence>">>)
    /\ s_out.kind = "returned"
    /\ s_out.value.time = "O(?)"

Flowcharted == s_call = "flowchart"

\* The fallback flowchart was returned.
FellBack ==
    /\ Flowcharted
    /\ s_out.kind = "returned"
    /\ FlowchartError(s_in.completion) \in {"JSONDecodeError", "KeyError"}

\* C22: generate_flowchart returns a Flowchart for every completion outcome
\* and never raises.
C22_GenerateFlowchartAlwaysReturns ==
    Flowcharted => s_out.kind = "returned"

\* C23 as stated: on unparseable text the flowchart has 3 nodes, plus one
\* when the requirements have a parameter.
C23_ThreeNodesPlusInput ==
    (Flowcharted /\ FlowchartError(s_in.completion) = "JSONDecodeError") =>
        /\ s_out.kind = "returned"
        /\ Len(s_out.value.nodes)
               = 3 + (IF Len(s_in.requirements.parameters) > 0 THEN 1 ELSE 0)

\* C23: on unparseable text the flowchart returned has 4 nodes (start,
\* process, output, end), plus an input node when the requirements have at
\* least one parameter.
C23_FourNodesPlusInput ==
    (Flowcharted /\ FlowchartError(s_in.completion) = "JSONDecodeError") =>
        /\ s_out.kind = "returned"
        /\ Len(s_out.value.nodes)
               = 4 + (IF Len(s_in.requirements.parameters) > 0 THEN 1 ELSE 0)
        /\ [k \in DOMAIN s_out.value.nodes |-> s_out.value.nodes[k].id]
               = IF Len(s_in.requirements.parameters) > 0
                 THEN <<"start", "input", "process", "output", "end">>
                 ELSE <<"start", "process", "output", "end">>

C23_Witness ==
    /\ Flowcharted
    /\ s_in.completion = Returned(<<"<fence>json", GoodDocument>>)
    /\ Len(s_in.requirements.parameters) = 2
    /\ s_out.kind = "returned"
    /\ Len(s_out.value.nodes) = 5

\* C24: the fallback flowchart is one chain from start to end: one edge
\* fewer than nodes, edge ids e1, e2, ... in sequence, node ids unique,
\* every edge between existing nodes, each edge starting where the previous
\* one ended.
C24_FallbackIsOneChain ==
    FellBack =>
        LET nodes == s_out.value.nodes
            edges == s_out.value.edges
            ids == {nodes[k].id : k \in DOMAIN nodes}
        IN  /\ Len(edges) = Len(nodes) - 1
            /\ \A k \in DOMAIN edges : edges[k].id = <<"e", k>>
            /\ Cardinality(ids) = Len(nodes)
            /\ \A k \in DOMAIN edges : edges[k].from_node \in ids /\ edges[k].to_node \in ids
            /\ edges[1].from_node = "start"
            /\ edges[Len(edges)].to_node = "end"
            /\ \A k \in 1..(Len(edges) - 1) : edges[k + 1].from_node = edges[k].to_node
            /\ \A k \in DOMAIN edges : edges[k].from_node = nodes[k].id
                                       /\ edges[k].to_node = nodes[k + 1].id

C24_Witness ==
    /\ FellBack
    /\ FlowchartError(s_in.completion) = "KeyError"
    /\ Len(s_in.requirements.parameters) = 0
    /\ Len(s_out.value.edges) = 3

HealthAsked == s_call = "health"

\* C25: GET /health always answers; when the completion service is
\* unreachable the status is not ok and model_available is false; and in
\* every response the status is ok exactly when model_available is true.
C25_HealthNeverFails ==
    HealthAsked =>
        /\ s_out.kind = "returned"
        /\ s_in.kind = "raises" =>
               s_out.value.status # "ok" /\ s_out.value.model_available = FALSE
        /\ s_out.value.status = "ok" <=> s_out.value.model_available = TRUE
        /\ s_out.value.model_available = TRUE =>
               \E k \in DOMAIN s_in.models :
                   ConfiguredModel \in {s_in.models[k].name, s_in.models[k].model}

C25_Witness ==
    /\ HealthAsked
    /\ s_in.kind = "raises"
    /\ s_out.kind = "returned"
    /\ s_out.value.status = "error"

----------------------------------------------------------------------------
(* Further properties of the pipeline, checked under Spec *)

\* C26: a /generate-code request with an empty requirements list is
\* answered 422 before any pipeline work: generate_functions is not called
\* and no step (completion call, test run) is ever executed for it.
C26_EmptyRequestRejectedBeforeWork ==
    (entry = "http" /\ Len(request.requirements) = 0) =>
        /\ pc = "done"
        /\ response.status = 422
        /\ trace = << >>
        /\ outcome = NoOutcome
        /\ results = << >>

C26_Witness ==
    /\ entry = "http"
    /\ Len(request.requirements) = 0
    /\ response.status = 422

----------------------------------------------------------------------------
(* Further properties of the two output parsers, checked under SpecParse *)

\* The positions of the result lines test_<module>.py::<name> PASSED|FAILED.
ResultLines(output) == {k \in DOMAIN output : MatchAt(output, k)}

\* The rank of result line k among the result lines of the output.
LineRank(output, k) == Cardinality({j \in ResultLines(output) : j <= k})

\* The positions of the word "in" of the clauses <tally> in <seconds>s.
ClauseEnds(output) == UNION {SummaryEnds(output, k) : k \in DOMAIN output}

\* The tally text of the clause whose "in" is at position m: the longest
\* run of tally characters before it.
TallyOfClause(output, m) ==
    LET k == Min({j \in DOMAIN output : m \in SummaryEnds(output, j)})
    IN  Strip(Piece(output, k) \o SubSeq(output, k + 1, m - 1))

\* C27: the summary is the tally text of the last clause
\* <tally> in <seconds>s of the output, also when earlier text has that
\* shape, and the fixed unknown string only when there is no such clause.
C27_SummaryIsLastClause ==
    Parsed =>
        IF ClauseEnds(o_output) = {}
        THEN o_parsed.summary = <<"Unknown test results">>
        ELSE o_parsed.summary = TallyOfClause(o_output, Max(ClauseEnds(o_output)))

\* C28: one result per result line, in order of appearance, named as the
\* line says, passed exactly when the line says PASSED.
C28_OneResultPerLineInOrder ==
    (Parsed /\ ResultLines(o_output) # {}) =>
        /\ Len(o_parsed.results) = Cardinality(ResultLines(o_output))
        /\ \A k \in ResultLines(o_output) :
               LET result == o_parsed.results[LineRank(o_output, k)]
               IN  /\ result.name = o_output[k + 1]
                   /\ result.passed = (o_output[WsEnd(o_output, k + 2)] = "PASSED")

C28_Witness ==
    /\ Parsed
    /\ Cardinality(ResultLines(o_output)) = 2
    /\ Len(o_parsed.results) = 2
    /\ o_parsed.results[1].name = "test_a" /\ o_parsed.results[1].passed = TRUE
    /\ o_parsed.results[2].name = "test_b" /\ o_parsed.results[2].passed = FALSE

\* The text from the name on result line k up to the next test_<module>.py::
\* or the end of the output.
OwnText(output, k) ==
    LET later == {j \in (k + 1)..Len(output) : output[j] \in PrefixTokens}
    IN  Strip(SubSeq(output, k + 1,
                     IF later = {} THEN Len(output) ELSE Min(later) - 1))

\* C29: the output of a FAILED result is the text from its own result line
\* up to the next result line or the end, wherever else its name occurs;
\* the output of a PASSED result is empty.
C29_FailureTextFromOwnLine ==
    Parsed =>
        \A k \in ResultLines(o_output) :
            LET result == o_parsed.results[LineRank(o_output, k)]
            IN  IF o_output[WsEnd(o_output, k + 2)] = "FAILED"
                THEN result.output = OwnText(o_output, k)
                ELSE result.output = << >>

\* The events of function i, and whether its generate_function returned.
EventsOf(i) == {k \in DOMAIN trace : trace[k].i = i}

Succeeded(i) == \E k \in EventsOf(i) : trace[k].step = "analyze"

\* C30: a generate_function that returns made 2 completion calls (function,
\* complexity) when it was given approved tests and 3 (function, tests,
\* complexity) when it was not, and one run_tests call either way, whose
\* two arguments are the texts returned in CodeResult.function and
\* CodeResult.tests.code.
C30_CallsOfOneFunction ==
    \A i \in DOMAIN requirements_list :
        Succeeded(i) =>
            LET given == Truthy(TestsForThis(requirements_list, i, approved_tests))
                completions == {k \in EventsOf(i) : trace[k].step \in CompletionSteps}
                runs == {k \in EventsOf(i) : trace[k].step = "run"}
            IN  /\ Cardinality(completions) = IF given THEN 2 ELSE 3
                /\ {trace[k].step : k \in completions}
                       = IF given THEN {"synth", "analyze"}
                         ELSE {"synth", "gen_tests", "analyze"}
                /\ Cardinality(runs) = 1
                /\ Len(results) >= i
                /\ \A k \in runs :
                       /\ trace[k].args.function_code = results[i].function
                       /\ trace[k].args.test_code = results[i].tests.code

C30_Witness ==
    /\ entry = "direct"
    /\ Truthy(approved_tests)
    /\ Len(requirements_list) = 2
    /\ requirements_list[2] # requirements_list[1]
    /\ Succeeded(1) /\ Succeeded(2)
    /\ Cardinality({k \in EventsOf(1) : trace[k].step \in CompletionSteps}) = 2
    /\ Cardinality({k \in EventsOf(2) : trace[k].step \in CompletionSteps}) = 3

====
